---- MODULE Spec2Model ----
(***************************************************************************)
(* A model of two parts of the Miden VM:                                   *)
(*   - the semantic analysis of a module (assembly/src/sema/mod.rs):       *)
(*     analyze, visit_procedures, define_import, define_procedure;         *)
(*   - the operation dispatcher of the processor                           *)
(*     (processor/src/operations/mod.rs): execute_op, advance_clock,       *)
(*     ensure_trace_capacity.                                              *)
(* SpecSema runs analyze on every bounded form sequence, SpecProc drives   *)
(* a process by a bounded sequence of execute_op calls.                    *)
(***************************************************************************)
EXTENDS Integers, Sequences, FiniteSets, TLC

VARIABLES
    \* ---- analyze (sema/mod.rs) ----
    kind,        \* ModuleKind of the module being analyzed
    forms,       \* the form sequence handed to analyze
    idx,         \* number of forms popped from the front of the queue
    docs,        \* the pending docstring slot: None, or the span of the Doc
    module,      \* the Module under construction
    analyzer,    \* the AnalysisContext
    procedures,  \* visit_procedures' queue of exports still to visit
    locals,      \* visit_procedures' set of local procedure names
    apc,         \* position in analyze: "forms", "visit", "done"
    result,      \* "running", "module", "failure" or "panic"
    \* ---- Process (operations/mod.rs) ----
    system,      \* System: clk and the length of its trace buffer
    stack,       \* Stack: clk, trace buffer length, current and next row
    max_cycles,  \* Process.max_cycles
    ppc,         \* position in execute_op: "idle", "transition", "advance"
    op,          \* the operation being executed
    outcome,     \* result of the last finished execute_op call
    memory,      \* Memory: the set of <<address, element>> cells written
    host,        \* Host: the events it received through on_event
    dispatch,    \* history: system clock when the current call was entered
    n_ok         \* history: number of calls that returned Ok

semaVars == <<kind, forms, idx, docs, module, analyzer, procedures, locals, apc, result>>
procVars == <<system, stack, memory, host, max_cycles, ppc, op, outcome, dispatch, n_ok>>
vars == <<semaVars, procVars>>

\* An empty Option: no pending docstring, no span.
None == <<>>
\* No import found by a lookup.
NoImport == 0

\* ---------------------------------------------------------------------------
\* Bounds of the model
\* ---------------------------------------------------------------------------
MaxForms == 3
\* max_cycles of the execution options ranges over 1..MaxCycles.
MaxCycles == 4
\* Rows allocated to a trace buffer when the process is created.
InitTraceLen == 2

\* ---------------------------------------------------------------------------
\* Data: module kinds, paths, instructions, forms
\* ---------------------------------------------------------------------------
ModuleKind == {"Library", "Kernel", "Executable"}

\* ProcedureName::main()
MainName == "main"

\* The `path` argument of analyze.
ModulePath == <<"app">>

PathU64 == <<"std", "math", "u64">>
PathV == <<"std", "v">>

\* LibraryPath::namespace(): the first component of a path.
Namespace(p) == Head(p)

\* Visibility::is_exported()
IsExported(v) == v \in {"Public", "Syscall"}

\* Instructions of a procedure body.  An invocation names its callee by an
\* optional module prefix (None when the callee is a bare procedure name)
\* and a procedure name.
Add == [inst |-> "add"]
Invoke(i, abs, m, n) == [inst |-> i, absolute |-> abs, module |-> m, name |-> n]

BodyAdd == <<Add>>
BodyUse == <<Invoke("exec", FALSE, <<"u64">>, "f")>>
BodyCall == <<Invoke("call", FALSE, <<"u64">>, "f"), Invoke("exec", FALSE, <<"u64">>, "g")>>
BodyMissing == <<Invoke("exec", FALSE, <<"w">>, "h")>>
BodyLocal == <<Invoke("exec", FALSE, <<>>, "bar"), Invoke("syscall", TRUE, ModulePath, "bar")>>

ProcedureExport(n, v, b) == [tag |-> "Procedure", name |-> n, visibility |-> v, body |-> b]
AliasExport(n, abs, m) == [tag |-> "Alias", name |-> n, absolute |-> abs, target |-> m]

ModuleDocForm == [type |-> "ModuleDoc"]
DocForm == [type |-> "Doc"]
ConstantForm(ok) == [type |-> "Constant", ok |-> ok]
ImportForm(n, p) == [type |-> "Import", local_name |-> n, path |-> p]
ProcedureForm(e) == [type |-> "Procedure", export |-> e]
BeginForm(b) == [type |-> "Begin", body |-> b]

\* The forms the analyzed sequences are built from.
FormUniverse ==
    { ModuleDocForm, DocForm, ConstantForm(TRUE), ConstantForm(FALSE),
      ImportForm("u64", PathU64), ImportForm("v", PathV),
      ProcedureForm(ProcedureExport("foo", "Public", BodyAdd)),
      ProcedureForm(ProcedureExport("foo", "Public", BodyCall)),
      ProcedureForm(ProcedureExport("bar", "Private", BodyUse)),
      ProcedureForm(ProcedureExport(MainName, "Public", BodyLocal)),
      ProcedureForm(AliasExport("mod64", FALSE, <<"u64">>)),
      ProcedureForm(AliasExport("modw", FALSE, <<"w">>)),
      ProcedureForm(AliasExport("abs64", TRUE, PathU64)),
      BeginForm(BodyAdd), BeginForm(BodyMissing) }

FormSeqs == UNION { [1..n -> FormUniverse] : n \in 0..MaxForms }

\* A span is <<index of the form in the source, offset inside the form>>.
FormSpan(i) == <<i, 0>>
InstSpan(sp, j) == <<sp[1], j>>

\* ---------------------------------------------------------------------------
\* AnalysisContext (sema/context.rs)
\* ---------------------------------------------------------------------------
NewContext(wae) ==
    [warnings_as_errors |-> wae, diags |-> <<>>, constants |-> <<>>, procedure_names |-> {}]

\* A warning is promoted to an error on insertion under warnings_as_errors;
\* UnusedImport is the only warning.
Severity(an, k) ==
    IF k = "UnusedImport" /\ ~an.warnings_as_errors THEN "warning" ELSE "error"

\* AnalysisContext::error
Error(an, k, sp) ==
    [an EXCEPT !.diags = Append(@, [kind |-> k, span |-> sp, severity |-> Severity(an, k)])]

\* AnalysisContext::has_failed: failure iff an error is present.
HasFailed(an) == \E i \in DOMAIN an.diags : an.diags[i].severity = "error"

\* AnalysisContext::register_procedure_name
RegisterProcedureName(an, n) == [an EXCEPT !.procedure_names = @ \cup {n}]

\* AnalysisContext::define_constant: a constant whose expression does not
\* evaluate is a fatal error.
DefineConstant(an, sp, ok, d) ==
    IF ok
    THEN [analyzer |-> [an EXCEPT !.constants = Append(@, [span |-> sp, docs |-> d])],
          failed |-> FALSE]
    ELSE [analyzer |-> Error(an, "UnresolvedConstant", sp), failed |-> TRUE]

\* ---------------------------------------------------------------------------
\* Module (ast/module.rs)
\* ---------------------------------------------------------------------------
NewModule(k) == [kind |-> k, docs |-> None, imports |-> <<>>, procedures |-> <<>>]

\* Module::resolve_import: index of the import with this local name, or None.
ResolveImport(m, ident) ==
    IF \E i \in DOMAIN m.imports : m.imports[i].local_name = ident
    THEN CHOOSE i \in DOMAIN m.imports :
            /\ m.imports[i].local_name = ident
            /\ \A j \in DOMAIN m.imports : m.imports[j].local_name = ident => i <= j
    ELSE NoImport

\* Module::define_import: local names are unique within a module.
ModuleDefineImport(m, import) ==
    IF ResolveImport(m, import.local_name) # NoImport
    THEN [module |-> m, err |-> "ImportConflict"]
    ELSE [module |-> [m EXCEPT !.imports = Append(@, import)], err |-> "none"]

\* Module::define_procedure: export names are unique within a module.
ModuleDefineProcedure(m, export) ==
    IF \E i \in DOMAIN m.procedures : m.procedures[i].name = export.name
    THEN [module |-> m, err |-> "SymbolConflict"]
    ELSE [module |-> [m EXCEPT !.procedures = Append(@, export)], err |-> "none"]

\* Module::has_entrypoint
HasEntrypoint(m) == \E i \in DOMAIN m.procedures : m.procedures[i].name = MainName

\* Module::is_kernel
IsKernel(m) == m.kind = "Kernel"

\* Mutant of WithDocs: the pending docstring is taken but not attached.
WithDocs_Dropped(export, sp, d) == export @@ [span |-> sp, docs |-> None]

\* Export::with_docs, with the span the export carries from the parser.
WithDocs(export, sp, d) == export @@ [span |-> sp, docs |-> d]

\* ---------------------------------------------------------------------------
\* define_import, define_procedure (sema/mod.rs)
\* ---------------------------------------------------------------------------
\* Mutant of DefineImport: an ImportConflict is gated like any other error.
DefineImport_Gated(import, m, an) ==
    LET r == ModuleDefineImport(m, import) IN
    IF r.err = "none" THEN [module |-> r.module, analyzer |-> an, failed |-> FALSE]
    ELSE LET an2 == Error(an, r.err, import.span) IN
         [module |-> r.module, analyzer |-> an2, failed |-> HasFailed(an2)]

\* An ImportConflict is recorded and the analysis proceeds; any other error is
\* recorded and gated by has_failed.
DefineImport(import, m, an) ==
    LET r == ModuleDefineImport(m, import) IN
    IF r.err = "none" THEN [module |-> r.module, analyzer |-> an, failed |-> FALSE]
    ELSE IF r.err = "ImportConflict"
    THEN [module |-> r.module, analyzer |-> Error(an, r.err, import.span), failed |-> FALSE]
    ELSE LET an2 == Error(an, r.err, import.span) IN
         [module |-> r.module, analyzer |-> an2, failed |-> HasFailed(an2)]

\* Mutant of DefineProcedure: a SymbolConflict is gated like any other error.
DefineProcedure_Gated(export, m, an) ==
    LET r == ModuleDefineProcedure(m, export) IN
    IF r.err = "none"
    THEN [module |-> r.module, analyzer |-> RegisterProcedureName(an, export.name),
          failed |-> FALSE]
    ELSE LET an2 == Error(an, r.err, export.span) IN
         IF HasFailed(an2)
         THEN [module |-> r.module, analyzer |-> an2, failed |-> TRUE]
         ELSE [module |-> r.module, analyzer |-> RegisterProcedureName(an2, export.name),
               failed |-> FALSE]

\* A SymbolConflict is recorded and the analysis proceeds; any other error is
\* recorded and gated by has_failed.  The name is registered unless the gate
\* returned.
DefineProcedure(export, m, an) ==
    LET r == ModuleDefineProcedure(m, export) IN
    IF r.err = "none"
    THEN [module |-> r.module, analyzer |-> RegisterProcedureName(an, export.name),
          failed |-> FALSE]
    ELSE IF r.err = "SymbolConflict"
    THEN [module |-> r.module,
          analyzer |-> RegisterProcedureName(Error(an, r.err, export.span), export.name),
          failed |-> FALSE]
    ELSE LET an2 == Error(an, r.err, export.span) IN
         IF HasFailed(an2)
         THEN [module |-> r.module, analyzer |-> an2, failed |-> TRUE]
         ELSE [module |-> r.module, analyzer |-> RegisterProcedureName(an2, export.name),
               failed |-> FALSE]

\* ---------------------------------------------------------------------------
\* analyze: the form pass
\* ---------------------------------------------------------------------------
\* Mutant of UnexpectedExport: an exported procedure is accepted in an executable.
UnexpectedExport_Accepted(k, export) == FALSE

\* The guard of the Executable arm of `Form::Procedure(export)`.
UnexpectedExport(k, export) ==
    k = "Executable" /\ IsExported(export.visibility) /\ export.name # MainName

Step(d, m, an, st) == [docs |-> d, module |-> m, analyzer |-> an, status |-> st]

FromDefinition(r) ==
    Step(None, r.module, r.analyzer, IF r.failed THEN "failure" ELSE "continue")

\* Mutant of ModuleDocAssertion: the module must not have docs yet either.
ModuleDocAssertion_Once(d, m) == d = None /\ m.docs = None

\* `assert!(docs.is_none())` of the ModuleDoc arm: no docstring is pending.
ModuleDocAssertion(d, m) == d = None

\* Mutant of EntrypointAllowed: a Begin form is accepted in every kind.
EntrypointAllowed_AnyKind(k) == TRUE

\* The guard of the first `Form::Begin` arm.
EntrypointAllowed(k) == k = "Executable"

\* One iteration of the `while let Some(form) = forms.pop_front()` loop.
AnalyzeForm(f, sp, k, d, m, an) ==
    CASE f.type = "ModuleDoc" ->
            IF ModuleDocAssertion(d, m)
            THEN Step(d, [m EXCEPT !.docs = sp], an, "continue")
            ELSE Step(d, m, an, "panic")
      [] f.type = "Doc" ->
            Step(sp, m, IF d # None THEN Error(an, "UnusedDocstring", d) ELSE an, "continue")
      [] f.type = "Constant" ->
            LET r == DefineConstant(an, sp, f.ok, d) IN
            Step(None, m, r.analyzer, IF r.failed THEN "failure" ELSE "continue")
      [] f.type = "Import" ->
            LET an1 == IF d # None THEN Error(an, "ImportDocstring", d) ELSE an
                import == [local_name |-> f.local_name, path |-> f.path,
                           span |-> sp, uses |-> 0]
            IN  FromDefinition(DefineImport(import, m, an1))
      [] f.type = "Procedure" /\ f.export.tag = "Alias" ->
            IF k = "Kernel" THEN Step(None, m, Error(an, "ReexportFromKernel", sp), "continue")
            ELSE IF k = "Executable"
            THEN Step(None, m, Error(an, "UnexpectedExport", sp), "continue")
            ELSE FromDefinition(DefineProcedure(WithDocs(f.export, sp, d), m, an))
      [] f.type = "Procedure" /\ f.export.tag = "Procedure" ->
            IF UnexpectedExport(k, f.export)
            THEN Step(None, m, Error(an, "UnexpectedExport", sp), "continue")
            ELSE FromDefinition(DefineProcedure(WithDocs(f.export, sp, d), m, an))
      [] f.type = "Begin" ->
            IF EntrypointAllowed(k)
            THEN FromDefinition(DefineProcedure(
                    WithDocs(ProcedureExport(MainName, "Public", f.body), sp, d), m, an))
            ELSE Step(None, m, Error(an, "UnexpectedEntrypoint", sp), "continue")

\* Mutant of MissingEntrypoint: the module kind is not looked at.
MissingEntrypoint_AnyKind(k, m) == ~HasEntrypoint(m)

\* The condition under which MissingEntrypoint is reported after the loop.
MissingEntrypoint(k, m) == k = "Executable" /\ ~HasEntrypoint(m)

\* `forms.pop_front()` and the match on the form.
FormStep ==
    /\ apc = "forms" /\ idx < Len(forms)
    /\ LET r == AnalyzeForm(forms[idx + 1], FormSpan(idx + 1), kind, docs, module, analyzer) IN
        /\ idx' = idx + 1
        /\ docs' = r.docs
        /\ module' = r.module
        /\ analyzer' = r.analyzer
        /\ apc' = IF r.status = "continue" THEN "forms" ELSE "done"
        /\ result' = IF r.status = "continue" THEN "running" ELSE r.status
    /\ UNCHANGED <<kind, forms, procedures, locals, procVars>>

\* Mutant of EndOfForms: the has_failed gate is missing, the procedure pass
\* always starts.
EndOfForms_Ungated ==
    /\ apc = "forms" /\ idx = Len(forms)
    /\ LET an1 == IF docs # None THEN Error(analyzer, "UnusedDocstring", docs) ELSE analyzer
           an2 == IF MissingEntrypoint(kind, module)
                  THEN Error(an1, "MissingEntrypoint", None) ELSE an1
       IN /\ docs' = None
          /\ analyzer' = an2
          /\ apc' = "procedures"
          /\ result' = "running"
    /\ UNCHANGED <<kind, forms, idx, module, procedures, locals, procVars>>

\* After the loop: the leftover docstring, the entry point check and the
\* has_failed gate.
EndOfForms ==
    /\ apc = "forms" /\ idx = Len(forms)
    /\ LET an1 == IF docs # None THEN Error(analyzer, "UnusedDocstring", docs) ELSE analyzer
           an2 == IF MissingEntrypoint(kind, module)
                  THEN Error(an1, "MissingEntrypoint", None) ELSE an1
       IN /\ docs' = None
          /\ analyzer' = an2
          /\ apc' = IF HasFailed(an2) THEN "done" ELSE "procedures"
          /\ result' = IF HasFailed(an2) THEN "failure" ELSE "running"
    /\ UNCHANGED <<kind, forms, idx, module, procedures, locals, procVars>>

\* ---------------------------------------------------------------------------
\* Procedure passes (sema/passes): VerifyInvokeTargets
\* ---------------------------------------------------------------------------
\* Mutant of IncrementUses: the use is not counted.
IncrementUses_Lost(m, i) == m

IncrementUses(m, i) == [m EXCEPT !.imports[i].uses = @ + 1]

\* One instruction of a body.  A kernel may not `call` or `syscall`.  A callee
\* on this module's absolute path is local; a callee whose module prefix is
\* the local name of an import is rewritten to the import's path and counts
\* as a use; a bare name of a local procedure is bound locally; anything else
\* is a MissingImport.
VerifyInst(st, inst, sp, locs) ==
    IF inst.inst = "add" THEN [st EXCEPT !.body = Append(@, inst)]
    ELSE
      LET m == st.module
          an == IF IsKernel(m) /\ inst.inst \in {"call", "syscall"}
                THEN Error(st.analyzer, "InvalidKernelInvoke", sp) ELSE st.analyzer
          i == IF ~inst.absolute /\ inst.module # <<>>
               THEN ResolveImport(m, Namespace(inst.module)) ELSE NoImport
      IN  IF inst.absolute /\ inst.module = ModulePath
          THEN [module |-> m, analyzer |-> an, body |-> Append(st.body, inst)]
          ELSE IF i # NoImport
          THEN [module |-> IncrementUses(m, i), analyzer |-> an,
                body |-> Append(st.body,
                    [inst EXCEPT !.absolute = TRUE, !.module = m.imports[i].path])]
          ELSE IF inst.module = <<>> /\ inst.name \in locs
          THEN [module |-> m, analyzer |-> an, body |-> Append(st.body, inst)]
          ELSE [module |-> m, analyzer |-> Error(an, "MissingImport", sp),
                body |-> Append(st.body, inst)]

RECURSIVE VerifyBody(_, _, _, _, _)
VerifyBody(st, body, j, sp, locs) ==
    IF j > Len(body) THEN st
    ELSE VerifyBody(VerifyInst(st, body[j], InstSpan(sp, j), locs), body, j + 1, sp, locs)

\* VerifyInvokeTargets::visit_mut_procedure
VerifyInvokeTargets(an, m, locs, procedure) ==
    LET st == VerifyBody([module |-> m, analyzer |-> an, body |-> <<>>],
                         procedure.body, 1, procedure.span, locs)
    IN  [module |-> st.module, analyzer |-> st.analyzer,
         export |-> [procedure EXCEPT !.body = st.body]]

\* ---------------------------------------------------------------------------
\* visit_procedures (sema/mod.rs)
\* ---------------------------------------------------------------------------
\* Mutant of RewriteVisibility: the kernel rewrite is forgotten.
RewriteVisibility_Forgotten(is_kernel, procedure) == procedure

\* Rewrite visibility for exported kernel procedures.
RewriteVisibility(is_kernel, procedure) ==
    IF is_kernel /\ procedure.visibility = "Public"
    THEN [procedure EXCEPT !.visibility = "Syscall"]
    ELSE procedure

\* Mutant of VisitProcedure: the invoke targets are not verified.
VisitProcedure_Unverified(procedure, m, an, locs) ==
    [module |-> m, analyzer |-> an, export |-> RewriteVisibility(IsKernel(m), procedure)]

\* The Export::Procedure arm: visibility rewrite, then the visitors.  The
\* bodies of FormUniverse hold no named immediates, so ConstEvalVisitor has
\* nothing to rewrite in them.
VisitProcedure(procedure, m, an, locs) ==
    VerifyInvokeTargets(an, m, locs, RewriteVisibility(IsKernel(m), procedure))

\* Mutant of VisitAlias: the import is marked used, the target is not expanded.
VisitAlias_Unexpanded(alias, m, an) ==
    IF ~alias.absolute
    THEN LET i == ResolveImport(m, Namespace(alias.target)) IN
         IF i # NoImport
         THEN [module |-> IncrementUses(m, i), analyzer |-> an, export |-> alias]
         ELSE [module |-> m, analyzer |-> Error(an, "MissingImport", alias.span),
               export |-> alias]
    ELSE [module |-> m, analyzer |-> an, export |-> alias]

\* The Export::Alias arm: resolve the import behind a non-absolute alias and
\* expand the target to the import's fully-qualified path.
VisitAlias(alias, m, an) ==
    IF ~alias.absolute
    THEN LET i == ResolveImport(m, Namespace(alias.target)) IN
         IF i # NoImport
         THEN [module |-> IncrementUses(m, i), analyzer |-> an,
               export |-> [alias EXCEPT !.target = m.imports[i].path]]
         ELSE [module |-> m, analyzer |-> Error(an, "MissingImport", alias.span),
               export |-> alias]
    ELSE [module |-> m, analyzer |-> an, export |-> alias]

VisitExport(export, m, an, locs) ==
    IF export.tag = "Procedure" THEN VisitProcedure(export, m, an, locs)
    ELSE VisitAlias(export, m, an)

\* The prologue of visit_procedures: the local names are collected and the
\* exports are moved out of the module into the queue.
VisitProceduresBegin ==
    /\ apc = "procedures"
    /\ locals' = { module.procedures[i].name : i \in DOMAIN module.procedures }
    /\ procedures' = module.procedures
    /\ module' = [module EXCEPT !.procedures = <<>>]
    /\ apc' = "visit"
    /\ UNCHANGED <<kind, forms, idx, docs, analyzer, result, procVars>>

\* Mutant of VisitNext: the visited export is put back at the front of the
\* module's list.
VisitNext_Prepend ==
    /\ apc = "visit" /\ procedures # <<>>
    /\ LET r == VisitExport(Head(procedures), module, analyzer, locals) IN
        /\ module' = [r.module EXCEPT !.procedures = <<r.export>> \o @]
        /\ analyzer' = r.analyzer
    /\ procedures' = Tail(procedures)
    /\ UNCHANGED <<kind, forms, idx, docs, locals, apc, result, procVars>>

\* One iteration of `while let Some(procedure) = procedures.pop_front()`.
VisitNext ==
    /\ apc = "visit" /\ procedures # <<>>
    /\ LET r == VisitExport(Head(procedures), module, analyzer, locals) IN
        /\ module' = [r.module EXCEPT !.procedures = Append(@, r.export)]
        /\ analyzer' = r.analyzer
    /\ procedures' = Tail(procedures)
    /\ UNCHANGED <<kind, forms, idx, docs, locals, apc, result, procVars>>

\* After visit_procedures: the unused imports and into_result.
RECURSIVE ReportUnused_All(_, _, _)
RECURSIVE ReportUnused_Reversed(_, _, _)
RECURSIVE ReportUnused(_, _, _)
ReportUnused_All(an, imports, i) ==
    IF i > Len(imports) THEN an
    ELSE ReportUnused_All(Error(an, "UnusedImport", imports[i].span), imports, i + 1)

ReportUnused_Reversed(an, imports, i) ==
    IF i > Len(imports) THEN an
    ELSE LET rest == ReportUnused_Reversed(an, imports, i + 1) IN
         IF imports[i].uses = 0 THEN Error(rest, "UnusedImport", imports[i].span) ELSE rest

ReportUnused(an, imports, i) ==
    IF i > Len(imports) THEN an
    ELSE ReportUnused(IF imports[i].uses = 0
                      THEN Error(an, "UnusedImport", imports[i].span) ELSE an,
                      imports, i + 1)

CheckUnusedImports ==
    /\ apc = "visit" /\ procedures = <<>>
    /\ LET an == ReportUnused(analyzer, module.imports, 1) IN
        /\ analyzer' = an
        /\ result' = IF HasFailed(an) THEN "failure" ELSE "module"
    /\ apc' = "done"
    /\ UNCHANGED <<kind, forms, idx, docs, module, procedures, locals, procVars>>

NextSema == FormStep \/ EndOfForms \/ VisitProceduresBegin \/ VisitNext \/ CheckUnusedImports

\* ---------------------------------------------------------------------------
\* Process state (processor): System, Stack
\* ---------------------------------------------------------------------------
MIN_STACK_DEPTH == 16

Zeros(n) == [i \in 1..n |-> 0]

\* Operation: the variants the model dispatches.
ControlFlowOps ==
    {"Join", "Split", "Loop", "Call", "SysCall", "Dyn", "Dyncall", "Span", "Repeat",
     "Respan", "End", "Halt"}

Operation ==
    {[name |-> "Noop"], [name |-> "Assert", err_code |-> 42],
     [name |-> "Push", value |-> 0], [name |-> "Push", value |-> 1],
     [name |-> "Drop"], [name |-> "U32div"],
     [name |-> "Emit", event_id |-> 7], [name |-> "MStore"]}
    \cup {[name |-> n] : n \in ControlFlowOps}

\* Result<(), ExecutionError>, and the abort of an `unreachable!`.
Ok == [status |-> "Ok"]
Err(e) == [status |-> "Err", err |-> e]
Panic == [status |-> "Panic"]

\* A trace buffer is grown (doubled) when the row of the next cycle does not
\* fit.
EnsureCapacity(clk, len) == IF clk + 1 >= len THEN 2 * len ELSE len

\* System::ensure_trace_capacity
SystemEnsureTraceCapacity(sys) == [sys EXCEPT !.trace_len = EnsureCapacity(sys.clk, @)]

\* Stack::ensure_trace_capacity
StackEnsureTraceCapacity(st) == [st EXCEPT !.trace_len = EnsureCapacity(st.clk, @)]

\* System::advance_clock: increments, failing past the maximum.
SystemAdvanceClock(sys, max) ==
    LET s2 == [sys EXCEPT !.clk = @ + 1] IN
    [system |-> s2,
     res |-> IF s2.clk > max THEN Err([kind |-> "CycleLimitExceeded", code |-> max]) ELSE Ok]

\* Stack::advance_clock: the row written for the next cycle becomes current.
StackAdvanceClock(st) == [st EXCEPT !.clk = @ + 1, !.row = st.next]

\* Stack::copy_state(start): positions from `start` on are copied unchanged
\* into the next row.
CopyState(st, start) ==
    [st EXCEPT !.next = SubSeq(st.next, 1, start) \o SubSeq(st.row, start + 1, Len(st.row))]

\* Shift the stack right by one, placing v on top.
ShiftRight(st, v) == [st EXCEPT !.next = <<v>> \o st.row]

\* Shift the stack left by one from position `start`; the depth never drops
\* below MIN_STACK_DEPTH, a zero is pulled in at the bottom.
ShiftLeft(st, kept, start) ==
    LET rest == SubSeq(st.row, start + 1, Len(st.row))
        out == kept \o rest
    IN  [st EXCEPT !.next = IF Len(out) < MIN_STACK_DEPTH THEN out \o <<0>> ELSE out]

\* ---------------------------------------------------------------------------
\* Operation handlers (processor/src/operations/*_ops.rs)
\* ---------------------------------------------------------------------------
Done(st) == [stack |-> st, res |-> Ok]
Fail(st, k, c) == [stack |-> st, res |-> Err([kind |-> k, code |-> c])]

\* Mutant of OpNoop: Noop is carried out as a Pad.
OpNoop_Pad(st) == Done(ShiftRight(st, 0))

\* Noop: `self.stack.copy_state(0)`
OpNoop(st) == Done(CopyState(st, 0))

\* Assert(code): the top of the stack must be 1; it is popped.
OpAssert(st, err_code) ==
    IF st.row[1] # 1 THEN Fail(st, "FailedAssertion", err_code)
    ELSE Done(ShiftLeft(st, <<>>, 1))

\* Push(value)
OpPush(st, value) == Done(ShiftRight(st, value))

\* Drop
OpDrop(st) == Done(ShiftLeft(st, <<>>, 1))

\* Emit(event_id): the stack is copied and the event is forwarded to the host.
OpEmit(st, event_id) == [stack |-> CopyState(st, 0), res |-> Ok, event |-> event_id]

\* MStore: the address on top is popped and the element below it is stored
\* at that address.
OpMStore(st) ==
    [stack |-> ShiftLeft(st, <<>>, 1), res |-> Ok, store |-> <<st.row[1], st.row[2]>>]

\* U32div: divisor on top, dividend below; the remainder ends on top of the
\* quotient.  A zero divisor is an error; the operation carries no code.
OpU32div(st) ==
    LET b == st.row[1]
        a == st.row[2]
    IN  IF b = 0 THEN Fail(st, "DivisionByZero", 0)
        ELSE Done(CopyState([st EXCEPT !.next = <<a % b, a \div b>>], 2))

\* ---------------------------------------------------------------------------
\* Process::execute_op, advance_clock, ensure_trace_capacity
\* ---------------------------------------------------------------------------
\* Process::ensure_trace_capacity
EnsureTraceCapacity(sys, st) ==
    [system |-> SystemEnsureTraceCapacity(sys), stack |-> StackEnsureTraceCapacity(st)]

\* Mutant of AdvanceClock: the stack clock is advanced before the system
\* clock is checked against the cycle limit.
AdvanceClock_StackFirst(sys, st, max) ==
    LET r == SystemAdvanceClock(sys, max) IN
    [system |-> r.system, stack |-> StackAdvanceClock(st), res |-> r.res]

\* Mutant of AdvanceClock: the stack clock is left behind.
AdvanceClock_SystemOnly(sys, st, max) ==
    LET r == SystemAdvanceClock(sys, max) IN
    [system |-> r.system, stack |-> st, res |-> r.res]

\* Process::advance_clock: the system clock first; the stack clock only when
\* the system clock did not fail.
AdvanceClock(sys, st, max) ==
    LET r == SystemAdvanceClock(sys, max) IN
    IF r.res.status = "Ok"
    THEN [system |-> r.system, stack |-> StackAdvanceClock(st), res |-> Ok]
    ELSE [system |-> r.system, stack |-> st, res |-> r.res]

\* Mutant of Transition: a control-flow operation is executed as a no-op
\* instead of aborting.
Transition_ControlAsNoop(o, st) ==
    CASE o.name = "Assert" -> OpAssert(st, o.err_code)
      [] o.name = "Push" -> OpPush(st, o.value)
      [] o.name = "Drop" -> OpDrop(st)
      [] o.name = "U32div" -> OpU32div(st)
      [] o.name = "Emit" -> OpEmit(st, o.event_id)
      [] o.name = "MStore" -> OpMStore(st)
      [] OTHER -> OpNoop(st)

\* Mutant of Transition: the error of op_u32div is dropped instead of being
\* returned with `?`.
Transition_U32divUnchecked(o, st) ==
    CASE o.name = "Noop" -> OpNoop(st)
      [] o.name = "Assert" -> OpAssert(st, o.err_code)
      [] o.name = "Push" -> OpPush(st, o.value)
      [] o.name = "Drop" -> OpDrop(st)
      [] o.name = "U32div" -> Done(OpU32div(st).stack)
      [] o.name = "Emit" -> OpEmit(st, o.event_id)
      [] o.name = "MStore" -> OpMStore(st)
      [] o.name \in ControlFlowOps -> [stack |-> st, res |-> Panic]

\* The `match op` of execute_op.
Transition(o, st) ==
    CASE o.name = "Noop" -> OpNoop(st)
      [] o.name = "Assert" -> OpAssert(st, o.err_code)
      [] o.name = "Push" -> OpPush(st, o.value)
      [] o.name = "Drop" -> OpDrop(st)
      [] o.name = "U32div" -> OpU32div(st)
      [] o.name = "Emit" -> OpEmit(st, o.event_id)
      [] o.name = "MStore" -> OpMStore(st)
      [] o.name \in ControlFlowOps -> [stack |-> st, res |-> Panic]

\* Memory after the transition r: a store replaces the cell at its address.
MemoryWrite(mem, r) ==
    IF "store" \in DOMAIN r
    THEN {c \in mem : c[1] # r.store[1]} \cup {r.store}
    ELSE mem

\* The host after the transition r: an emitted event is delivered to it.
HostEvent(h, r) == IF "event" \in DOMAIN r THEN Append(h, r.event) ELSE h

\* execute_op is entered: ensure_trace_capacity.
ExecuteOpBegin ==
    /\ ppc = "idle" /\ outcome.status = "Ok"
    /\ \E o \in Operation : op' = o
    /\ LET r == EnsureTraceCapacity(system, stack) IN
        /\ system' = r.system
        /\ stack' = r.stack
    /\ dispatch' = system.clk
    /\ ppc' = "transition"
    /\ UNCHANGED <<memory, host, max_cycles, outcome, n_ok, semaVars>>

\* Mutant of ExecuteOpTransition: the clock is advanced before the error of
\* the transition is returned.
ExecuteOpTransition_ClockOnError ==
    /\ ppc = "transition"
    /\ LET r == Transition(op, stack)
           c == AdvanceClock(system, r.stack, max_cycles)
       IN
        /\ stack' = IF r.res.status = "Err" THEN c.stack ELSE r.stack
        /\ system' = IF r.res.status = "Err" THEN c.system ELSE system
        /\ ppc' = IF r.res.status = "Ok" THEN "advance" ELSE "idle"
        /\ memory' = MemoryWrite(memory, r)
        /\ host' = HostEvent(host, r)
        /\ outcome' = r.res
    /\ UNCHANGED <<max_cycles, op, dispatch, n_ok, semaVars>>

\* The state transition of the operation; an error returns at once.
ExecuteOpTransition ==
    /\ ppc = "transition"
    /\ LET r == Transition(op, stack) IN
        /\ stack' = r.stack
        /\ ppc' = IF r.res.status = "Ok" THEN "advance" ELSE "idle"
        /\ memory' = MemoryWrite(memory, r)
        /\ host' = HostEvent(host, r)
        /\ outcome' = r.res
    /\ UNCHANGED <<system, max_cycles, op, dispatch, n_ok, semaVars>>

\* `self.advance_clock()?; Ok(())`
ExecuteOpAdvance ==
    /\ ppc = "advance"
    /\ LET r == AdvanceClock(system, stack, max_cycles) IN
        /\ system' = r.system
        /\ stack' = r.stack
        /\ outcome' = r.res
        /\ n_ok' = IF r.res.status = "Ok" THEN n_ok + 1 ELSE n_ok
    /\ ppc' = "idle"
    /\ UNCHANGED <<memory, host, max_cycles, op, dispatch, semaVars>>

NextProc == ExecuteOpBegin \/ ExecuteOpTransition \/ ExecuteOpAdvance

\* ---------------------------------------------------------------------------
\* Initial states and specifications
\* ---------------------------------------------------------------------------
\* analyze before the first form is popped.
SemaStart(k, fs, wae) ==
    /\ kind = k
    /\ forms = fs
    /\ idx = 0
    /\ docs = None
    /\ module = NewModule(k)
    /\ analyzer = NewContext(wae)
    /\ procedures = <<>>
    /\ locals = {}
    /\ apc = "forms"
    /\ result = "running"

\* Process::new
ProcStart(top, max) ==
    /\ system = [clk |-> 0, trace_len |-> InitTraceLen]
    /\ stack = [clk |-> 0, trace_len |-> InitTraceLen,
                row |-> <<top>> \o Zeros(MIN_STACK_DEPTH - 1),
                next |-> <<top>> \o Zeros(MIN_STACK_DEPTH - 1)]
    /\ memory = {}
    /\ host = <<>>
    /\ max_cycles = max
    /\ ppc = "idle"
    /\ op = [name |-> "Noop"]
    /\ outcome = Ok
    /\ dispatch = 0
    /\ n_ok = 0

InitSema ==
    /\ \E k \in ModuleKind, fs \in FormSeqs, wae \in BOOLEAN : SemaStart(k, fs, wae)
    /\ ProcStart(0, 1)

InitProc ==
    /\ SemaStart("Library", <<>>, FALSE)
    /\ \E top \in {0, 1}, max \in 1..MaxCycles : ProcStart(top, max)

SpecSema == InitSema /\ [][NextSema]_vars

SpecProc == InitProc /\ [][NextProc]_vars

\* ---------------------------------------------------------------------------
\* Properties
\* ---------------------------------------------------------------------------
Returned == apc = "done" /\ result = "module"

\* The form a defined export came from, and the body that form gave it.
FormOf(e) == forms[e.span[1]]
FormBody(f) == IF f.type = "Begin" THEN f.body ELSE f.export.body

IsInvoke(inst, names) == inst.inst \in names

BodyHas(body, names) == \E j \in DOMAIN body : IsInvoke(body[j], names)

DiagCount(k) == Cardinality({i \in DOMAIN analyzer.diags : analyzer.diags[i].kind = k})

HasDiag(k) == DiagCount(k) > 0

\* C1: a module returned by analyze(kind = Kernel) has no Public procedure:
\* every Procedure form is in the module, those defined Public with
\* visibility Syscall and those defined Private still Private.
C1_KernelVisibility ==
    (Returned /\ kind = "Kernel") =>
        /\ \A i \in DOMAIN module.procedures :
            LET e == module.procedures[i] IN
            /\ e.tag = "Procedure"
            /\ e.visibility # "Public"
            /\ FormOf(e).type = "Procedure"
            /\ FormOf(e).export.visibility = "Public" => e.visibility = "Syscall"
            /\ FormOf(e).export.visibility = "Private" => e.visibility = "Private"
        /\ \A j \in DOMAIN forms :
            forms[j].type = "Procedure" =>
                \E i \in DOMAIN module.procedures : module.procedures[i].span = FormSpan(j)

C1_Witness ==
    /\ Returned /\ kind = "Kernel"
    /\ \E i \in DOMAIN module.procedures : module.procedures[i].visibility = "Syscall"
    /\ \E i \in DOMAIN module.procedures : module.procedures[i].visibility = "Private"

\* C2: a module returned by analyze(kind = Kernel) has no `call` or `syscall`
\* in any procedure body, and a Kernel whose Procedure forms hold one never
\* yields a module: the analysis ends in failure (or in the ModuleDoc
\* assertion).
C2_KernelInvoke ==
    (apc = "done" /\ kind = "Kernel") =>
        /\ result = "module" =>
            \A i \in DOMAIN module.procedures :
                ~BodyHas(module.procedures[i].body, {"call", "syscall"})
        /\ (\E j \in DOMAIN forms :
                /\ forms[j].type = "Procedure" /\ forms[j].export.tag = "Procedure"
                /\ BodyHas(forms[j].export.body, {"call", "syscall"}))
            => result \in {"failure", "panic"}

C2_Witness ==
    /\ apc = "done" /\ kind = "Kernel" /\ result = "failure"
    /\ HasDiag("InvalidKernelInvoke")
    /\ \E i \in DOMAIN module.procedures :
            BodyHas(module.procedures[i].body, {"call", "syscall"})

\* C3: a module returned by analyze(kind = Executable) has exactly one
\* procedure named main, no alias, and no exported procedure besides main.
C3_ExecutableEntrypoint ==
    (Returned /\ kind = "Executable") =>
        /\ Cardinality({i \in DOMAIN module.procedures :
                            module.procedures[i].name = MainName}) = 1
        /\ \A i \in DOMAIN module.procedures :
            LET e == module.procedures[i] IN
            /\ e.tag = "Procedure"
            /\ IsExported(e.visibility) => e.name = MainName

C3_Witness ==
    /\ Returned /\ kind = "Executable"
    /\ Len(module.procedures) >= 2
    /\ \E i \in DOMAIN module.procedures :
        /\ module.procedures[i].name = MainName
        /\ FormOf(module.procedures[i]).type = "Procedure"

\* What each step of execute_op may change.
C4_Order ==
    /\ ppc = "idle" =>
        /\ ppc' = "transition"
        /\ system'.clk = system.clk /\ stack'.clk = stack.clk
        /\ stack'.row = stack.row /\ stack'.next = stack.next
        /\ system'.trace_len > system.clk + 1 /\ stack'.trace_len > stack.clk + 1
    /\ ppc = "transition" =>
        /\ ppc' \in {"advance", "idle"}
        /\ system' = system /\ stack'.clk = stack.clk /\ stack'.row = stack.row
        /\ stack'.trace_len = stack.trace_len
        /\ ppc' = "advance" <=> outcome'.status = "Ok"
    /\ ppc = "advance" =>
        /\ ppc' = "idle"
        /\ system'.trace_len = system.trace_len /\ stack'.trace_len = stack.trace_len
        /\ stack'.next = stack.next
        /\ outcome'.status = "Ok" =>
            /\ system'.clk = system.clk + 1
            /\ stack'.clk = stack.clk + 1
            /\ stack'.row = stack.next
            /\ n_ok' = n_ok + 1

\* The clocks count the calls that returned Ok.
C4_Clock == outcome.status = "Ok" => system.clk = n_ok /\ stack.clk = n_ok

\* C4: execute_op runs ensure_trace_capacity, then the transition, then
\* advance_clock: the buffers hold the next row before the transition writes
\* it, only the last step moves the clocks, each call that returns Ok moves
\* them by exactly 1, and after n such calls they stand at n.
C4_ExecuteOpOrder == [][C4_Order]_vars /\ []C4_Clock

C4_Witness == ppc = "idle" /\ outcome.status = "Ok" /\ n_ok = 3 /\ system.trace_len > InitTraceLen

\* C5 as stated: the clock never exceeds max_cycles.
C5_ClockNeverExceeds == system.clk <= max_cycles /\ stack.clk <= max_cycles

CycleLimitExceeded == outcome.status = "Err" /\ outcome.err.kind = "CycleLimitExceeded"

\* C5, amended: no call returns Ok with the clock past max_cycles: the call
\* that advances the system clock to max_cycles + 1 fails with
\* CycleLimitExceeded, and the stack clock is not advanced in that call, so
\* the stack clock never exceeds max_cycles.
C5_CycleLimit ==
    /\ stack.clk <= max_cycles
    /\ system.clk <= max_cycles + 1
    /\ outcome.status = "Ok" => system.clk <= max_cycles
    /\ system.clk > max_cycles => CycleLimitExceeded /\ stack.clk = max_cycles
    /\ CycleLimitExceeded => system.clk = max_cycles + 1 /\ n_ok = max_cycles

C5_Witness == CycleLimitExceeded /\ max_cycles > 1

TransitionFailed ==
    ppc = "idle" /\ outcome.status = "Err" /\ outcome.err.kind # "CycleLimitExceeded"

\* C6: when the transition of an operation fails, execute_op returns that
\* error without running advance_clock: both clocks still stand at the cycle
\* the operation was dispatched at, which is the number of completed cycles.
C6_FailedTransition ==
    TransitionFailed =>
        /\ system.clk = dispatch /\ stack.clk = dispatch /\ n_ok = dispatch
        /\ outcome = Transition(op, stack).res

C6_Witness == TransitionFailed /\ outcome.err.kind = "FailedAssertion" /\ system.clk = 2

\* The form pass popped every form and reached the has_failed gate: no
\* constant definition failed and the ModuleDoc assertion held.
FormPassEnded ==
    /\ apc # "forms" /\ idx = Len(forms)
    /\ result # "panic" /\ ~HasDiag("UnresolvedConstant")

\* Form j is an import whose local name an earlier import already took.
ConflictingImport(j) ==
    /\ forms[j].type = "Import"
    /\ \E i \in 1..(j - 1) :
        forms[i].type = "Import" /\ forms[i].local_name = forms[j].local_name

\* A callee with a module prefix that no import of the sequence provides.
UnresolvableCallee(inst) ==
    /\ IsInvoke(inst, {"exec", "call", "syscall"})
    /\ ~inst.absolute /\ inst.module # <<>>
    /\ \A i \in DOMAIN forms :
        forms[i].type = "Import" => forms[i].local_name # Namespace(inst.module)

\* Form j defines a procedure whose body holds such a callee.
DefinesMissingImport(j) ==
    /\ \/ forms[j].type = "Begin" /\ kind = "Executable"
       \/ forms[j].type = "Procedure" /\ forms[j].export.tag = "Procedure"
          /\ ~UnexpectedExport(kind, forms[j].export)
    /\ \E n \in DOMAIN FormBody(forms[j]) : UnresolvableCallee(FormBody(forms[j])[n])

\* C7 as stated: with two imports of one local name followed by a procedure
\* whose body needs a missing import, the invocation that records the
\* ImportConflict also reports the MissingImport.
C7_MissingImportStillReported ==
    (/\ apc = "done" /\ FormPassEnded
     /\ \E j \in DOMAIN forms :
            ConflictingImport(j) /\ \E n \in (j + 1)..Len(forms) : DefinesMissingImport(n))
    => HasDiag("ImportConflict") /\ HasDiag("MissingImport")

\* C7, amended: an ImportConflict is recorded for every import that repeats a
\* local name, the first import is kept, and the form pass goes on: every
\* later form is still processed and defined.  The invocation then fails at
\* the has_failed gate, so the procedure pass does not run and no
\* MissingImport is reported.
C7_ImportConflictContinues ==
    /\ \A j \in 1..idx :
        ConflictingImport(j) <=>
            \E i \in DOMAIN analyzer.diags :
                analyzer.diags[i] =
                    [kind |-> "ImportConflict", span |-> FormSpan(j), severity |-> "error"]
    /\ \A i \in DOMAIN module.imports : ~ConflictingImport(module.imports[i].span[1])
    /\ HasDiag("ImportConflict") =>
        /\ apc \in {"forms", "done"} /\ result # "module"
        /\ ~HasDiag("MissingImport")
        /\ (apc = "done" /\ result = "failure" /\ ~HasDiag("UnresolvedConstant"))
                => idx = Len(forms)
        /\ \A j \in 1..idx :
            (forms[j].type = "Begin" /\ kind = "Executable") =>
                MainName \in analyzer.procedure_names

C7_Witness ==
    /\ apc = "done" /\ FormPassEnded /\ result = "failure"
    /\ Len(forms) = 3 /\ ConflictingImport(2) /\ DefinesMissingImport(3)
    /\ \E i \in DOMAIN module.procedures : module.procedures[i].span = FormSpan(3)

NoEntrypointForm ==
    \A j \in DOMAIN forms :
        /\ forms[j].type # "Begin"
        /\ forms[j].type = "Procedure" => forms[j].export.name # MainName

\* C8 as stated: every Executable form sequence without an entry point gets
\* MissingEntrypoint exactly once and no module; Library and Kernel never
\* get it.
C8_MissingEntrypointAlways ==
    apc = "done" =>
        /\ (kind = "Executable" /\ NoEntrypointForm) =>
                DiagCount("MissingEntrypoint") = 1 /\ result # "module"
        /\ kind # "Executable" => DiagCount("MissingEntrypoint") = 0

\* C8, amended: every Executable form sequence without an entry point whose
\* form pass runs to the end of the stream (no failing constant definition,
\* no ModuleDoc assertion failure) gets MissingEntrypoint exactly once and no
\* module; when the form pass is cut short it gets none, and still no
\* module; Library and Kernel never get it.
C8_MissingEntrypoint ==
    /\ apc = "done" =>
        /\ (kind = "Executable" /\ NoEntrypointForm) =>
            /\ result # "module"
            /\ DiagCount("MissingEntrypoint") = IF FormPassEnded THEN 1 ELSE 0
    /\ kind # "Executable" => DiagCount("MissingEntrypoint") = 0

C8_Witness ==
    /\ apc = "done" /\ kind = "Executable" /\ NoEntrypointForm /\ FormPassEnded
    /\ Len(forms) = 3 /\ DiagCount("MissingEntrypoint") = 1 /\ result = "failure"


\* The import an alias target's short module name stands for, if any.
AliasImports(alias) ==
    {i \in DOMAIN module.imports : module.imports[i].local_name = Head(alias.target)}

UsesAfter(i) == module'.imports[i].uses

OnlyUsesChange ==
    /\ DOMAIN module'.imports = DOMAIN module.imports
    /\ \A i \in DOMAIN module.imports :
            module'.imports[i] = [module.imports[i] EXCEPT !.uses = UsesAfter(i)]

\* The step of the procedure pass that visits an alias.
C9_AliasStep ==
    (apc = "visit" /\ procedures # <<>> /\ Head(procedures).tag = "Alias") =>
        LET alias == Head(procedures)
            out == module'.procedures[Len(module'.procedures)]
        IN  /\ Len(module'.procedures) = Len(module.procedures) + 1
            /\ OnlyUsesChange
            /\ (~alias.absolute /\ AliasImports(alias) # {}) =>
                /\ \E i \in AliasImports(alias) :
                    /\ out = [alias EXCEPT !.target = module.imports[i].path]
                    /\ UsesAfter(i) = module.imports[i].uses + 1
                    /\ \A j \in DOMAIN module.imports \ {i} :
                            UsesAfter(j) = module.imports[j].uses
                /\ analyzer' = analyzer
            /\ (~alias.absolute /\ AliasImports(alias) = {}) =>
                /\ out = alias
                /\ module'.imports = module.imports
                /\ analyzer'.diags = Append(analyzer.diags,
                        [kind |-> "MissingImport", span |-> alias.span, severity |-> "error"])
            /\ alias.absolute =>
                /\ out = alias
                /\ module'.imports = module.imports
                /\ analyzer' = analyzer

\* C9: in the procedure pass a non-absolute alias whose target module short
\* name is the local name of an import gets that import's path as its target
\* module and adds exactly 1 to that import's uses; without such an import it
\* is reported MissingImport and left as it was; an absolute alias is left
\* unchanged and counts for no import.
C9_AliasResolution == [][C9_AliasStep]_vars

C9_Witness ==
    /\ apc = "done" /\ result = "module" /\ Len(module.imports) = 2
    /\ \E i \in DOMAIN module.procedures :
        /\ module.procedures[i].tag = "Alias" /\ ~module.procedures[i].absolute
        /\ module.procedures[i].target = PathU64
        /\ FormOf(module.procedures[i]).export.target = <<"u64">>
    /\ \E i \in DOMAIN module.imports :
        module.imports[i].local_name = "u64" /\ module.imports[i].uses = 1

\* The procedure pass has visited every export.
ProcedurePassDone == (apc = "visit" /\ procedures = <<>>) \/ (apc = "done" /\ locals # {})

\* The procedure at position n of the module names `ident` as the module
\* prefix of a callee, in the body its form gave it.
BodyReferences(n, ident) ==
    /\ module.procedures[n].tag = "Procedure"
    /\ \E j \in DOMAIN FormBody(FormOf(module.procedures[n])) :
        LET inst == FormBody(FormOf(module.procedures[n]))[j] IN
        /\ IsInvoke(inst, {"exec", "call", "syscall"})
        /\ ~inst.absolute /\ inst.module # <<>>
        /\ Namespace(inst.module) = ident

\* The alias at position n of the module was resolved through `ident`.
AliasResolvedThrough(n, ident) ==
    /\ module.procedures[n].tag = "Alias"
    /\ ~module.procedures[n].absolute
    /\ Namespace(FormOf(module.procedures[n]).export.target) = ident

C10_UsedIffReferenced ==
    ProcedurePassDone =>
        \A i \in DOMAIN module.imports :
            module.imports[i].uses > 0 <=>
                \E n \in DOMAIN module.procedures :
                    \/ BodyReferences(n, module.imports[i].local_name)
                    \/ AliasResolvedThrough(n, module.imports[i].local_name)

C10_UsesGrow ==
    apc = "visit" =>
        /\ DOMAIN module'.imports = DOMAIN module.imports
        /\ \A i \in DOMAIN module.imports : UsesAfter(i) >= module.imports[i].uses

\* C10: after the procedure pass an import has uses > 0 exactly when some
\* procedure body names its local name as the module prefix of a callee or
\* some alias was resolved through it; uses never decreases during the pass.
C10_ImportUses == []C10_UsedIffReferenced /\ [][C10_UsesGrow]_vars

C10_Witness ==
    /\ ProcedurePassDone /\ Len(module.imports) = 2
    /\ \E i \in DOMAIN module.imports : module.imports[i].uses = 2
    /\ \E i \in DOMAIN module.imports : module.imports[i].uses = 0


\* The diagnostics of the form pass (the loop and the checks that follow it,
\* lines 38-114); each is an error.
FormPassKinds ==
    {"UnusedDocstring", "ImportDocstring", "ReexportFromKernel", "UnexpectedExport",
     "UnexpectedEntrypoint", "MissingEntrypoint", "ImportConflict", "SymbolConflict",
     "UnresolvedConstant"}

FormPassErrors == {i \in DOMAIN analyzer.diags : analyzer.diags[i].kind \in FormPassKinds}

\* analyze ran to its last line: it passed the has_failed() gate, visited the
\* procedures and checked the imports.
UnusedChecked == apc = "done" /\ result # "panic" /\ FormPassErrors = {}

UnusedReports(i) ==
    {j \in DOMAIN analyzer.diags :
        /\ analyzer.diags[j].kind = "UnusedImport"
        /\ analyzer.diags[j].span = module.imports[i].span}

OnlyUnusedImport ==
    /\ analyzer.diags # <<>>
    /\ \A j \in DOMAIN analyzer.diags : analyzer.diags[j].kind = "UnusedImport"

\* C11: when analyze has checked the imports, every import with uses = 0 has
\* exactly one UnusedImport diagnostic and an import with uses > 0 has none,
\* and there is no other UnusedImport diagnostic; when UnusedImport is the
\* only kind of diagnostic, the module is returned without warnings_as_errors
\* and failure is returned with it.
C11_UnusedImport ==
    UnusedChecked =>
        /\ \A i \in DOMAIN module.imports :
                Cardinality(UnusedReports(i)) = IF module.imports[i].uses = 0 THEN 1 ELSE 0
        /\ DiagCount("UnusedImport") =
                Cardinality({i \in DOMAIN module.imports : module.imports[i].uses = 0})
        /\ OnlyUnusedImport =>
                result = IF analyzer.warnings_as_errors THEN "failure" ELSE "module"

C11_Witness ==
    /\ UnusedChecked /\ OnlyUnusedImport /\ Returned
    /\ \E i \in DOMAIN module.imports : module.imports[i].uses = 0
    /\ \E i \in DOMAIN module.imports : module.imports[i].uses > 0


\* Textual order of two spans: by form, then by offset within the form.
SpanLeq(a, b) == a[1] < b[1] \/ (a[1] = b[1] /\ a[2] <= b[2])

Spanned(i) == analyzer.diags[i].span # None

\* The part of analyze that emits a diagnostic of kind k: the form pass
\* (lines 38-114), the procedure pass (line 119), the import check (121-128).
Phase(k) ==
    IF k \in FormPassKinds THEN 1 ELSE IF k = "UnusedImport" THEN 3 ELSE 2

DiagPhase(i) == Phase(analyzer.diags[i].kind)

ControlFlowDelivered == op.name \in ControlFlowOps

\* The match arm of a control-flow operation: the call aborts, and neither
\* the process nor the host is changed.
C13_Abort ==
    (ppc = "transition" /\ ControlFlowDelivered) =>
        /\ outcome' = Panic /\ ppc' = "idle"
        /\ system' = system /\ stack' = stack
        /\ memory' = memory /\ host' = host /\ n_ok' = n_ok

\* A call that was given a control-flow operation ended as an abort, with
\* both clocks at the cycle of the dispatch.
C13_Aborted ==
    ControlFlowDelivered =>
        /\ ppc # "advance"
        /\ ppc = "idle" =>
            /\ outcome = Panic
            /\ system.clk = dispatch /\ stack.clk = dispatch /\ n_ok = dispatch

\* C13: execute_op performs no state transition for any of the twelve
\* control-flow operations: the call aborts as an internal error, returning
\* neither Ok nor an ExecutionError, and the clock is not advanced.
C13_ControlFlow == [][C13_Abort]_vars /\ []C13_Aborted

C13_Witness ==
    /\ ppc = "idle" /\ op.name = "Halt" /\ outcome = Panic
    /\ system.clk = 2 /\ stack.row[1] = 1 /\ memory # {}


IsDoc(j) == forms[j].type = "Doc"

\* The definitions that can carry a docstring: the exports of the module
\* (during the procedure pass some are in the queue) and the constants.
Documentable == module.procedures \o procedures \o analyzer.constants

DocOf(j) == {n \in DOMAIN Documentable : Documentable[n].docs = FormSpan(j)}

UnusedDocReports(j) ==
    {n \in DOMAIN analyzer.diags :
        /\ analyzer.diags[n].kind = "UnusedDocstring"
        /\ analyzer.diags[n].span = FormSpan(j)}

\* The docstring of form j was followed by another docstring, or was still
\* pending when the form pass reached the end of the stream.
DocUnused(j) ==
    /\ IsDoc(j)
    /\ \/ j < idx /\ IsDoc(j + 1)
       \/ j = Len(forms) /\ FormPassEnded

\* C14: a docstring is attached only to the definition made by the form
\* right after it; a Doc followed by a Doc, or pending at the end of the
\* stream, is reported UnusedDocstring (once, and nothing else is); the
\* pending slot is empty after a Constant, Import, Procedure or Begin form;
\* and in a returned module every Doc form is attached to the definition of
\* the next form.
C14_Docstrings ==
    /\ \A n \in DOMAIN Documentable :
        LET e == Documentable[n] IN
        e.docs # None =>
            /\ e.span[1] > 1 /\ e.docs = FormSpan(e.span[1] - 1)
            /\ IsDoc(e.span[1] - 1)
            /\ DocOf(e.span[1] - 1) = {n}
    /\ \A j \in 1..idx :
        Cardinality(UnusedDocReports(j)) = IF DocUnused(j) THEN 1 ELSE 0
    /\ (idx >= 1 /\ forms[idx].type \in {"Constant", "Import", "Procedure", "Begin"}) =>
            docs = None
    /\ docs # None => (idx >= 1 /\ apc = "forms" /\ IsDoc(idx) /\ docs = FormSpan(idx))
                      \/ result = "panic"
    /\ Returned =>
        \A j \in DOMAIN forms :
            IsDoc(j) =>
                /\ j < Len(forms)
                /\ \E n \in DocOf(j) : Documentable[n].span = FormSpan(j + 1)

C14_Witness ==
    /\ Returned /\ module.docs # None
    /\ \E n \in DOMAIN module.procedures : module.procedures[n].docs # None


IsModuleDoc(j) == forms[j].type = "ModuleDoc"

\* The ModuleDoc forms the pass has processed.
ModuleDocs == {j \in 1..idx : IsModuleDoc(j)}

\* Form j is a ModuleDoc that arrived while the docstring of form j - 1 was
\* pending.
ModuleDocAfterDoc(j) == IsModuleDoc(j) /\ j > 1 /\ IsDoc(j - 1)

Asserted == apc = "done" /\ result = "panic"

\* C15 as stated: a second ModuleDoc, like a ModuleDoc that arrives while a
\* docstring is pending, trips the assertion.
C15_AtMostOnce ==
    (Cardinality(ModuleDocs) > 1 \/ \E j \in ModuleDocs : ModuleDocAfterDoc(j)) => Asserted

\* C15: the assertion of the ModuleDoc arm is about the pending docstring
\* only: it trips exactly when a ModuleDoc arrives while a docstring is
\* pending, and ends the pass at that form; any other ModuleDoc, a second
\* one included, is accepted and becomes the docs of the module.
C15_ModuleDoc ==
    /\ Asserted <=> (idx >= 1 /\ ModuleDocAfterDoc(idx))
    /\ \A j \in ModuleDocs : ModuleDocAfterDoc(j) => j = idx
    /\ Asserted => docs = FormSpan(idx - 1) /\ module.docs # FormSpan(idx)
    /\ ~Asserted =>
        module.docs = IF ModuleDocs = {} THEN None
                      ELSE FormSpan(CHOOSE j \in ModuleDocs : \A i \in ModuleDocs : i <= j)

C15_Witness ==
    /\ Returned /\ Cardinality(ModuleDocs) = 2 /\ module.docs = FormSpan(2)


\* The transition about to run is U32div with a zero divisor on top of the
\* stack.
U32divByZero == ppc = "transition" /\ op.name = "U32div" /\ stack.row[1] = 0

ClockAtDispatch == system.clk = dispatch /\ stack.clk = dispatch

NoopDelivered == op.name = "Noop"

HostAndMemoryUntouched == memory' = memory /\ host' = host

\* C17: in a call of execute_op(Noop) the transition does not fail and
\* writes the current stack row, every element and the depth, as the next
\* row; no step of the call changes the memory or the host; and when the
\* cycle limit is not exceeded the call returns Ok with both clocks
\* advanced by exactly 1 and the stack as it was.
C17_Noop ==
    [][NoopDelivered' =>
        /\ HostAndMemoryUntouched
        /\ ppc = "transition" =>
            /\ outcome' = Ok /\ ppc' = "advance"
            /\ stack'.next = stack.row /\ stack'.row = stack.row
            /\ ClockAtDispatch'
        /\ (ppc = "advance" /\ system.clk < max_cycles) =>
            /\ outcome' = Ok /\ ppc' = "idle"
            /\ stack'.row = stack.row /\ Len(stack'.row) = Len(stack.row)
            /\ system'.clk = dispatch + 1 /\ stack'.clk = dispatch + 1]_vars

C17_Witness ==
    /\ ppc = "idle" /\ NoopDelivered /\ outcome = Ok /\ system.clk = dispatch + 1
    /\ Len(stack.row) > MIN_STACK_DEPTH /\ stack.row[1] = 1
    /\ memory # {} /\ host # <<>>


IsBegin(j) == forms[j].type = "Begin"

IsAlias(j) == forms[j].type = "Procedure" /\ forms[j].export.tag = "Alias"

\* Form j is not legal in a module of this kind.
Illegal(j) ==
    \/ IsBegin(j) /\ kind # "Executable"
    \/ IsAlias(j) /\ kind # "Library"
    \/ /\ forms[j].type = "Procedure" /\ forms[j].export.tag = "Procedure"
       /\ kind = "Executable"
       /\ IsExported(forms[j].export.visibility) /\ forms[j].export.name # MainName

\* The diagnostic an illegal form is rejected with.
Rejection(j) ==
    IF IsBegin(j) THEN "UnexpectedEntrypoint"
    ELSE IF IsAlias(j) /\ kind = "Kernel" THEN "ReexportFromKernel"
    ELSE "UnexpectedExport"

Rejected(j, k) ==
    \E n \in DOMAIN analyzer.diags :
        analyzer.diags[n].kind = k /\ analyzer.diags[n].span = FormSpan(j)

\* The exports of the module, those waiting in the queue of the procedure
\* pass included.
Exports == module.procedures \o procedures

DefinedBy(j) == {n \in DOMAIN Exports : Exports[n].span = FormSpan(j)}

\* C18: a form that is not legal for the module kind is rejected with its
\* diagnostic and defines nothing (a Begin outside an Executable with
\* UnexpectedEntrypoint, an Alias in a Kernel with ReexportFromKernel); so a
\* returned module was built from legal forms only: a returned Library or
\* Kernel has no export made from a Begin form, and a returned module with
\* an Alias export is a Library.
C18_LegalForms ==
    /\ \A j \in 1..idx :
        /\ Illegal(j) => Rejected(j, Rejection(j)) /\ DefinedBy(j) = {}
        /\ \A k \in {"UnexpectedEntrypoint", "ReexportFromKernel", "UnexpectedExport"} :
            Rejected(j, k) => Illegal(j) /\ k = Rejection(j)
    /\ Returned =>
        /\ \A j \in DOMAIN forms : ~Illegal(j)
        /\ kind # "Executable" => \A n \in DOMAIN Exports : ~IsBegin(Exports[n].span[1])
        /\ kind # "Library" => \A n \in DOMAIN Exports : Exports[n].tag # "Alias"

C18_Witness ==
    /\ apc = "done" /\ result = "failure" /\ kind = "Kernel" /\ idx = 3
    /\ \E j \in 1..idx : IsBegin(j) /\ Rejected(j, "UnexpectedEntrypoint")
    /\ \E j \in 1..idx : IsAlias(j) /\ Rejected(j, "ReexportFromKernel")
    /\ Len(module.procedures) = 1


\* The export a form defines, before any pass has changed it.
AsDefined(e) ==
    LET f == FormOf(e) IN
    WithDocs(IF f.type = "Begin" THEN ProcedureExport(MainName, "Public", f.body)
             ELSE f.export,
             e.span, e.docs)

\* The procedure pass has not touched the module: the exports are as their
\* forms defined them, no import has a use, the queue was never filled.
ProcedurePassNotRun ==
    /\ procedures = <<>> /\ locals = {}
    /\ \A n \in DOMAIN module.procedures : module.procedures[n] = AsDefined(module.procedures[n])
    /\ \A i \in DOMAIN module.imports : module.imports[i].uses = 0
    /\ \A n \in DOMAIN analyzer.diags : analyzer.diags[n].kind \in FormPassKinds

\* C19: once the form pass has recorded an error, the procedure pass never
\* runs: analyze is still in the form pass or has returned failure (at the
\* has_failed gate when the pass reached the end of the stream), no body
\* was visited, no visibility rewritten, no use counted, and there is no
\* MissingImport or UnusedImport diagnostic.
C19_Gate ==
    FormPassErrors # {} =>
        /\ apc \in {"forms", "done"}
        /\ apc = "done" => result \in {"failure", "panic"}
        /\ FormPassEnded => apc = "done" /\ result = "failure"
        /\ ProcedurePassNotRun

C19_Witness ==
    /\ FormPassEnded /\ FormPassErrors # {} /\ kind = "Kernel"
    /\ Len(module.imports) = 1
    /\ \E n \in DOMAIN module.procedures :
        /\ module.procedures[n].visibility = "Public"
        /\ BodyHas(module.procedures[n].body, {"exec"})


\* What identifies an export: its name, whether it is a Procedure or an
\* Alias, and the form it came from.
Signature(e) == <<e.name, e.tag, e.span>>

ExportList(es) == [n \in DOMAIN es |-> Signature(es[n])]

InProcedurePass == apc \in {"procedures", "visit"}

VisitFinished == (apc = "visit" /\ procedures = <<>>) \/ UnusedChecked

\* No step of the procedure pass changes the list of exports: those already
\* visited followed by those still queued.
C20_Kept == InProcedurePass => ExportList(Exports)' = ExportList(Exports)

\* C20: the procedure pass keeps the module's export list: every step of
\* the pass leaves the number, the names and the order of the exports as
\* they were, and when the pass is over they are all back in the module, in
\* the order of their forms, whether Procedure or Alias and whether or not
\* resolving them reported an error.
C20_ExportList ==
    /\ [][C20_Kept]_vars
    /\ [](VisitFinished =>
            /\ procedures = <<>>
            /\ \A n \in DOMAIN module.procedures :
                /\ Signature(module.procedures[n]) = Signature(AsDefined(module.procedures[n]))
                /\ \A p \in DOMAIN module.procedures :
                    n < p => module.procedures[n].span[1] < module.procedures[p].span[1]
            /\ locals = {module.procedures[n].name : n \in DOMAIN module.procedures})

C20_Witness ==
    /\ VisitFinished /\ Len(module.procedures) = 3
    /\ HasDiag("MissingImport")
    /\ \E n \in DOMAIN module.procedures : module.procedures[n].tag = "Alias"
    /\ \E n \in DOMAIN module.procedures : module.procedures[n].tag = "Procedure"


\* Form j is a Constant whose definition fails.
FailingConstant(j) == forms[j].type = "Constant" /\ ~forms[j].ok

\* Form j reaches define_procedure, and the name it defines.
Defines(j) ==
    \/ IsBegin(j) /\ kind = "Executable"
    \/ forms[j].type = "Procedure" /\ ~Illegal(j)

NameOf(j) == IF IsBegin(j) THEN MainName ELSE forms[j].export.name

\* Form j defines a name that an earlier form already defined.
ConflictingSymbol(j) ==
    Defines(j) /\ \E i \in 1..(j - 1) : Defines(i) /\ NameOf(i) = NameOf(j)

Conflicting(j) == ConflictingImport(j) \/ ConflictingSymbol(j)

ConflictKind(j) == IF ConflictingImport(j) THEN "ImportConflict" ELSE "SymbolConflict"

\* What the module and the analyzer hold that came from a form after j.
DefinedAfter(j) ==
    {n \in DOMAIN Exports : Exports[n].span[1] > j}
    \cup {n \in DOMAIN module.imports : module.imports[n].span[1] > j}
    \cup {n \in DOMAIN analyzer.constants : analyzer.constants[n].span[1] > j}
    \cup {n \in DOMAIN analyzer.diags : Spanned(n) /\ analyzer.diags[n].span[1] > j}

\* The form about to be popped.
NextForm(P(_)) == apc = "forms" /\ idx < Len(forms) /\ P(idx + 1)

\* C21, the steps: the step that pops a failing Constant returns failure and
\* leaves the module as it was; the step that pops a conflicting import or
\* procedure leaves the module as it was and stays in the form pass.
C21_Steps ==
    /\ NextForm(FailingConstant) =>
        /\ apc' = "done" /\ result' = "failure" /\ idx' = idx + 1
        /\ module' = module
        /\ analyzer'.diags = Append(analyzer.diags,
                [kind |-> "UnresolvedConstant", span |-> FormSpan(idx + 1),
                 severity |-> "error"])
    /\ NextForm(Conflicting) =>
        /\ apc' = "forms" /\ result' = "running" /\ idx' = idx + 1
        /\ module' = module
        /\ analyzer'.diags # <<>>
        /\ analyzer'.diags[Len(analyzer'.diags)] =
                [kind |-> ConflictKind(idx + 1), span |-> FormSpan(idx + 1),
                 severity |-> "error"]

\* C21, the states: after a failing Constant analyze has returned failure,
\* that Constant is the last form processed, its diagnostic is the last
\* one, nothing comes from a later form and the procedure pass did not run;
\* every processed conflicting form has its conflict recorded; and the pass
\* stops before the end of the stream only at a failing Constant or at the
\* ModuleDoc assertion, never at a conflict.
C21_States ==
    /\ \A j \in 1..idx :
        /\ FailingConstant(j) =>
            /\ j = idx /\ apc = "done" /\ result = "failure"
            /\ analyzer.diags[Len(analyzer.diags)].kind = "UnresolvedConstant"
            /\ analyzer.diags[Len(analyzer.diags)].span = FormSpan(j)
            /\ procedures = <<>> /\ locals = {}
        /\ Conflicting(j) => Rejected(j, ConflictKind(j))
    /\ DiagCount("UnresolvedConstant") <= 1
    /\ HasDiag("UnresolvedConstant") => idx >= 1 /\ FailingConstant(idx)
    /\ DefinedAfter(idx) = {}
    /\ (apc # "forms" /\ idx < Len(forms)) =>
            FailingConstant(idx) \/ (result = "panic" /\ ModuleDocAfterDoc(idx))

\* C21: a failing constant definition is fatal: analyze returns failure at
\* once and no later form is processed; an ImportConflict or SymbolConflict
\* is recorded and the form pass goes on with the forms that remain.
C21_FatalConstant == [][C21_Steps]_vars /\ []C21_States

C21_Witness ==
    /\ apc = "done" /\ result = "failure" /\ HasDiag("UnresolvedConstant")
    /\ idx = 2 /\ Len(forms) = 3
    /\ ConflictingImport(3) /\ ~HasDiag("ImportConflict")
    /\ Len(module.imports) = 1

====
